---- MODULE Spec2Model ----
(***************************************************************************)
(* Model of the data ingestion of the Covid-19 dashboard                   *)
(* (python-project-uma.py): the freshness marker (up_to_date,              *)
(* change_last_update), the memoised loader load_data, and the reshaping   *)
(* pipeline load_world_data.                                               *)
(*                                                                         *)
(* Spec       the loader: marker file, three cache files, the st.cache     *)
(*            memo of load_data, the remote repository and the clock.      *)
(* SpecWorld  the pipeline load_world_data applied to bounded raw tables.  *)
(***************************************************************************)
EXTENDS Integers, Sequences, FiniteSets, TLC

VARIABLES
    clock,      \* days elapsed since StartDate (the local clock, day granularity)
    remote,     \* snapshot number currently served by the three URLs
    marker,     \* contents of last_updated.dat
    files,      \* contents of data/covid_world_<metric>.csv, per metric
    memo,       \* st.cache entry of load_data() in the running process
    pc,         \* position of the running load_data() body, "idle" when none runs
    df,         \* locals df_global_<metric> of the running load_data() body
    ret,        \* outcome of the last completed load_data() call
    call,       \* history: what the current/last call saw and did
    stored,     \* history: the calendar date the marker file denotes
    cycle,      \* history: the fetch cycle whose change_last_update() wrote the marker
    raw,        \* input of load_world_data: what load_data() returned
    world       \* result of load_world_data

vars == <<clock, remote, marker, files, memo, pc, df, ret, call, stored, cycle, raw, world>>

loaderVars == <<clock, remote, marker, files, memo, pc, df, ret, call, stored, cycle>>

(***************************************************************************)
(* Bounds                                                                  *)
(***************************************************************************)
MaxDay == 2         \* number of day rollovers explored
MaxVersion == 1     \* number of upstream publications explored
MaxCount == 1       \* largest cumulative count in a raw table cell

Metrics == <<"confirmed", "deaths", "recovered">>

MetricSet == {Metrics[i] : i \in 1..Len(Metrics)}

(***************************************************************************)
(* The clock: dt.datetime.today() at day granularity.                      *)
(***************************************************************************)
StartDate == [day |-> 30, month |-> 12, year |-> 2020]

DaysIn(month, year) ==
    IF month = 2 THEN (IF year % 4 = 0 /\ (year % 100 # 0 \/ year % 400 = 0) THEN 29 ELSE 28)
    ELSE IF month \in {4, 6, 9, 11} THEN 30 ELSE 31

NextDay(d) ==
    IF d.day < DaysIn(d.month, d.year) THEN [d EXCEPT !.day = d.day + 1]
    ELSE IF d.month < 12 THEN [day |-> 1, month |-> d.month + 1, year |-> d.year]
    ELSE [day |-> 1, month |-> 1, year |-> d.year + 1]

RECURSIVE AddDays(_, _)
AddDays(d, n) == IF n = 0 THEN d ELSE AddDays(NextDay(d), n - 1)

Today == AddDays(StartDate, clock)

\* strftime('%d.%m.%Y'): the text is the sequence of its three numeric fields,
\* day first; distinct dates give distinct texts
strftime(d) == <<d.day, d.month, d.year>>

\* whitespace character of a text
WS == -1

RECURSIVE lstrip(_)
lstrip(s) == IF s # <<>> /\ Head(s) = WS THEN lstrip(Tail(s)) ELSE s

RECURSIVE rstrip(_)
rstrip(s) ==
    IF s # <<>> /\ s[Len(s)] = WS THEN rstrip(SubSeq(s, 1, Len(s) - 1)) ELSE s

strip(s) == rstrip(lstrip(s))

(***************************************************************************)
(* Freshness marker                                                        *)
(***************************************************************************)
NoMarker == [state |-> "absent", text |-> <<>>]

Undecodable == [state |-> "undecodable", text |-> <<>>]

TextFile(s) == [state |-> "text", text |-> s]

up_to_date_nostrip(m, today) ==
    IF m.state # "text" THEN FALSE ELSE strftime(today) = m.text

\* up_to_date(): open or read failing lands in the bare except and gives False
up_to_date(m, today) ==
    IF m.state # "text" THEN FALSE ELSE strftime(today) = strip(m.text)

\* the file change_last_update() leaves behind
change_last_update(today) == TextFile(strftime(today))

NoDate == [has |-> FALSE, date |-> StartDate]

SomeDate(d) == [has |-> TRUE, date |-> d]

\* the marker denotes the current calendar date
MarkerIsToday == stored.has /\ stored.date = Today

(***************************************************************************)
(* Cache files and data frames.  The loader never looks inside a table, so *)
(* a table is identified by the upstream snapshot it was downloaded from.  *)
(***************************************************************************)
NoFile == [exists |-> FALSE, v |-> 0]

CsvFile(v) == [exists |-> TRUE, v |-> v]

NoFrame == [set |-> FALSE, v |-> 0]

Frame(v) == [set |-> TRUE, v |-> v]

\* pd.read_csv(path) of an existing cache file
read_csv(f) == Frame(f.v)

\* pd.read_csv(url): the table the URL serves now
read_url == Frame(remote)

\* DataFrame.to_csv(path, index=False): the file it leaves behind
to_csv(d) == CsvFile(d.v)

NoFrames == [m \in MetricSet |-> NoFrame]

ReadAll(fs) == [m \in MetricSet |-> read_csv(fs[m])]

AllPresent(fs) == \A m \in MetricSet : fs[m].exists

NoMemo == [set |-> FALSE, val |-> NoFrames]

NoRet == [kind |-> "none", val |-> NoFrames, exc |-> "none"]

Returned(val) == [kind |-> "returned", val |-> val, exc |-> "none"]

Raised(exc) == [kind |-> "raised", val |-> NoFrames, exc |-> exc]

Idle == [at |-> "idle", i |-> 0]

\* what a read_csv(url) can do: succeed, raise urllib.error.HTTPError (a
\* non-2xx response), or raise urllib.error.URLError (host unreachable),
\* which is the base class of HTTPError and not an instance of it
FetchOutcomes == {"ok", "HTTPError", "URLError"}

after_fetch(i) ==
    IF i < Len(Metrics) THEN [at |-> "fetch", i |-> i + 1] ELSE [at |-> "save", i |-> 1]

after_save_skip(i) ==
    IF i + 1 < Len(Metrics) THEN [at |-> "save", i |-> i + 1] ELSE [at |-> "mark", i |-> 0]

after_save(i) ==
    IF i < Len(Metrics) THEN [at |-> "save", i |-> i + 1] ELSE [at |-> "mark", i |-> 0]

NewCall(how) ==
    [how |-> how, fresh |-> MarkerIsToday, uptodate |-> up_to_date(marker, Today),
     fetches |-> 0, failure |-> "none", files0 |-> files, marker0 |-> marker]

(***************************************************************************)
(* Initial state: a fresh checkout (no cache, no marker) or a populated    *)
(* cache with any marker file earlier runs or the user left behind.        *)
(***************************************************************************)
PrevDate == [day |-> 29, month |-> 12, year |-> 2020]

InitMarkers ==
    {<<NoMarker, NoDate>>, <<Undecodable, NoDate>>, <<TextFile(<<>>), NoDate>>}
    \cup {<<TextFile(strftime(d) \o pad), SomeDate(d)>> :
            d \in {PrevDate, StartDate}, pad \in {<<>>, <<WS>>}}

InitLoader ==
    /\ clock = 0
    /\ remote = 0
    /\ \/ /\ files = [m \in MetricSet |-> NoFile]
          /\ marker = NoMarker
          /\ stored = NoDate
       \/ /\ files = [m \in MetricSet |-> CsvFile(0)]
          /\ \E ms \in InitMarkers : marker = ms[1] /\ stored = ms[2]
    /\ memo = NoMemo
    /\ pc = Idle
    /\ df = NoFrames
    /\ ret = NoRet
    /\ call = NewCall("none")
    /\ cycle = [set |-> FALSE, date |-> StartDate, val |-> NoFrames]

(***************************************************************************)
(* Environment                                                             *)
(***************************************************************************)
\* midnight passes
Tick ==
    /\ clock < MaxDay
    /\ clock' = clock + 1
    /\ UNCHANGED <<remote, marker, files, memo, pc, df, ret, call, stored, cycle, raw, world>>

\* upstream publishes new tables
RemoteUpdate ==
    /\ remote < MaxVersion
    /\ remote' = remote + 1
    /\ UNCHANGED <<clock, marker, files, memo, pc, df, ret, call, stored, cycle, raw, world>>

\* the streamlit server process ends (at any point) and is started again
Restart ==
    /\ memo.set \/ pc # Idle \/ ret # NoRet
    /\ memo' = NoMemo
    /\ pc' = Idle
    /\ df' = NoFrames
    /\ ret' = NoRet
    /\ UNCHANGED <<clock, remote, marker, files, call, stored, cycle, raw, world>>

(***************************************************************************)
(* load_data()                                                             *)
(***************************************************************************)
\* @st.cache: a call whose result is memoised returns it; the body is not run
LoadDataCached ==
    /\ pc = Idle
    /\ memo.set
    /\ ret' = Returned(memo.val)
    /\ call' = NewCall("memo")
    /\ UNCHANGED <<clock, remote, marker, files, memo, pc, df, stored, cycle, raw, world>>

LoadDataEnter_inverted ==
    /\ pc = Idle
    /\ ~memo.set
    /\ pc' = IF ~up_to_date(marker, Today) THEN [at |-> "local", i |-> 0]
                                           ELSE [at |-> "fetch", i |-> 1]
    /\ df' = NoFrames
    /\ ret' = NoRet
    /\ call' = NewCall("body")
    /\ UNCHANGED <<clock, remote, marker, files, memo, stored, cycle, raw, world>>

\* the body starts: if up_to_date() ... else ...
LoadDataEnter ==
    /\ pc = Idle
    /\ ~memo.set
    /\ pc' = IF up_to_date(marker, Today) THEN [at |-> "local", i |-> 0]
                                          ELSE [at |-> "fetch", i |-> 1]
    /\ df' = NoFrames
    /\ ret' = NoRet
    /\ call' = NewCall("body")
    /\ UNCHANGED <<clock, remote, marker, files, memo, stored, cycle, raw, world>>

\* one pd.read_csv(url) of the try block
Fetch ==
    /\ pc.at = "fetch"
    /\ \E o \in FetchOutcomes :
         \/ /\ o = "ok"
            /\ df' = [df EXCEPT ![Metrics[pc.i]] = read_url]
            /\ pc' = after_fetch(pc.i)
            /\ call' = [call EXCEPT !.fetches = pc.i]
            /\ UNCHANGED ret
         \/ /\ o = "HTTPError"
            /\ pc' = [at |-> "local", i |-> 0]
            /\ call' = [call EXCEPT !.fetches = pc.i, !.failure = o]
            /\ UNCHANGED <<df, ret>>
         \/ /\ o = "URLError"
            /\ pc' = Idle
            /\ ret' = Raised(o)
            /\ call' = [call EXCEPT !.fetches = pc.i, !.failure = o]
            /\ UNCHANGED df
    /\ UNCHANGED <<clock, remote, marker, files, memo, stored, cycle, raw, world>>

\* the three pd.read_csv("data/...") of the fresh branch and of the except
\* branch, then return
LoadFromFiles ==
    /\ pc.at = "local"
    /\ pc' = Idle
    /\ IF AllPresent(files)
       THEN /\ df' = ReadAll(files)
            /\ memo' = [set |-> TRUE, val |-> ReadAll(files)]
            /\ ret' = Returned(ReadAll(files))
       ELSE /\ ret' = Raised("FileNotFoundError")
            /\ UNCHANGED <<df, memo>>
    /\ UNCHANGED <<clock, remote, marker, files, call, stored, cycle, raw, world>>

\* one to_csv of the else block
Save ==
    /\ pc.at = "save"
    /\ files' = [files EXCEPT ![Metrics[pc.i]] = to_csv(df[Metrics[pc.i]])]
    /\ pc' = after_save(pc.i)
    /\ UNCHANGED <<clock, remote, marker, memo, df, ret, call, stored, cycle, raw, world>>

\* change_last_update(), then return
Mark ==
    /\ pc.at = "mark"
    /\ marker' = change_last_update(Today)
    /\ stored' = SomeDate(Today)
    /\ cycle' = [set |-> TRUE, date |-> Today, val |-> df]
    /\ memo' = [set |-> TRUE, val |-> df]
    /\ ret' = Returned(df)
    /\ pc' = Idle
    /\ UNCHANGED <<clock, remote, files, df, call, raw, world>>

NoRaw == [m \in MetricSet |-> <<>>]

Init ==
    /\ InitLoader
    /\ raw = NoRaw
    /\ world = <<>>

Next ==
    \/ Tick
    \/ RemoteUpdate
    \/ Restart
    \/ LoadDataCached
    \/ LoadDataEnter
    \/ Fetch
    \/ LoadFromFiles
    \/ Save
    \/ Mark

Spec == Init /\ [][Next]_vars

(***************************************************************************)
(* load_world_data(): the reshaping pipeline.                              *)
(*                                                                         *)
(* A raw table is [cols, rows]: cols the date column labels in file order, *)
(* a row [province, country, lat, long, vals] with vals[label] the         *)
(* cumulative count.  A column label "m/d/yy" is the triple <<m, d, yy>>.  *)
(* A cell of a data frame that may be NaN is <<>> (NaN) or <<n>>.          *)
(***************************************************************************)
NaN == <<>>

Num(n) == <<n>>

\* alphabetical order of the country names
CountryOrder == <<"France", "Germany">>

CountryRank(c) == CHOOSE i \in 1..Len(CountryOrder) : CountryOrder[i] = c

\* pd.to_datetime of a column label
to_datetime(label) == [year |-> 2000 + label[3], month |-> label[1], day |-> label[2]]

DateLess(a, b) ==
    \/ a.year < b.year
    \/ a.year = b.year /\ a.month < b.month
    \/ a.year = b.year /\ a.month = b.month /\ a.day < b.day

IdVars == {"province", "country", "lat", "long"}

\* DataFrame.melt(id_vars=[...]): one record per (date column, row), column-major
melt(t) ==
    [k \in 1..(Len(t.cols) * Len(t.rows)) |->
        LET c == ((k - 1) \div Len(t.rows)) + 1
            r == ((k - 1) % Len(t.rows)) + 1
        IN  [province |-> t.rows[r].province, country |-> t.rows[r].country,
             lat |-> t.rows[r].lat, long |-> t.rows[r].long,
             date |-> t.cols[c], value |-> t.rows[r].vals[t.cols[c]]]]

SameKey(l, r) == l.date = r.date /\ \A f \in IdVars : l[f] = r[f]

Extend(l, field, v) == [f \in DOMAIN l \cup {field} |-> IF f = field THEN v ELSE l[f]]

RECURSIVE merge_inner(_, _, _)
merge_inner(left, right, field) ==
    IF left = <<>> THEN <<>>
    ELSE LET l == Head(left)
             matches == SelectSeq(right, LAMBDA r : SameKey(l, r))
         IN  [i \in 1..Len(matches) |-> Extend(l, field, Num(matches[i].value))]
             \o merge_inner(Tail(left), right, field)

\* pd.merge(left, right, how="left", on=[id_vars, date]): every left record once
\* per matching right record, with NaN when there is none
RECURSIVE merge(_, _, _)
merge(left, right, field) ==
    IF left = <<>> THEN <<>>
    ELSE LET l == Head(left)
             matches == SelectSeq(right, LAMBDA r : SameKey(l, r))
             joined ==
                 IF matches = <<>> THEN <<Extend(l, field, NaN)>>
                 ELSE [i \in 1..Len(matches) |-> Extend(l, field, Num(matches[i].value))]
         IN  joined \o merge(Tail(left), right, field)

RECURSIVE SumSeq(_)
SumSeq(s) == IF s = <<>> THEN 0 ELSE Head(s) + SumSeq(Tail(s))

RECURSIVE Flatten(_)
Flatten(s) == IF s = <<>> THEN <<>> ELSE Head(s) \o Flatten(Tail(s))

RECURSIVE MaxSeq(_)
MaxSeq(s) ==
    IF s = <<>> THEN 0
    ELSE LET m == MaxSeq(Tail(s)) IN IF Head(s) > m THEN Head(s) ELSE m

agg_max(cells) == MaxSeq(Flatten(cells))

\* agg 'sum': the sum of the cells that are not NaN (0 when all are)
agg_sum(cells) == SumSeq(Flatten(cells))

\* agg 'mean': sum and count of the values, as the fraction <<sum, count>>
agg_mean(values) == <<SumSeq(values), Len(values)>>

RowLess(a, b) ==
    \/ CountryRank(a.country) < CountryRank(b.country)
    \/ a.country = b.country /\ DateLess(a.date, b.date)

\* the records of a set in (country, date) order
RECURSIVE Sorted(_)
Sorted(S) ==
    IF S = {} THEN <<>>
    ELSE LET lo == CHOOSE x \in S : \A y \in S : ~RowLess(y, x)
         IN  <<lo>> \o Sorted(S \ {lo})

Column(s, field) == [i \in 1..Len(s) |-> s[i][field]]

\* groupby(['country', 'date']).agg({...}).reset_index(), then
\* sort_values(by=["country", "date"]) and the rename of the totals
groupby_agg(joined) ==
    LET keys == {[country |-> joined[i].country, date |-> joined[i].date] :
                    i \in 1..Len(joined)}
        group(k) == SelectSeq(joined, LAMBDA r : r.country = k.country /\ r.date = k.date)
    IN  [i \in 1..Cardinality(keys) |->
            LET k == Sorted(keys)[i]
                g == group(k)
            IN  [country |-> k.country, date |-> k.date,
                 lat |-> agg_mean(Column(g, "lat")),
                 long |-> agg_mean(Column(g, "long")),
                 total_confirmed |-> agg_sum(Column(g, "confirmed")),
                 total_deaths |-> agg_sum(Column(g, "deaths")),
                 total_recovered |-> agg_sum(Column(g, "recovered"))]]

\* Series.diff() over the whole column: NaN in the first row of the frame
diff(col) == [i \in 1..Len(col) |-> IF i = 1 THEN NaN ELSE Num(col[i] - col[i - 1])]

\* fillna(0)
fillna(cell) == IF cell = NaN THEN 0 ELSE cell[1]

clip_none(x) == x

\* df.loc[df[c] < 0, c] = 0
clip(x) == IF x < 0 THEN 0 ELSE x

daily(agg, field) ==
    LET d == diff(Column(agg, field)) IN [i \in 1..Len(agg) |-> clip(fillna(d[i]))]

active_clipped(tc, tr, td) == clip(tc - tr - td)

\* total_confirmed - total_recovered - total_deaths
active(tc, tr, td) == tc - tr - td

load_world_data(t) ==
    LET confirmed_melt == melt(t["confirmed"])
        deaths_melt == melt(t["deaths"])
        recovered_melt == melt(t["recovered"])
        merge1 == merge([i \in 1..Len(confirmed_melt) |->
                            [f \in IdVars \cup {"date", "confirmed"} |->
                                IF f = "confirmed" THEN Num(confirmed_melt[i].value)
                                ELSE confirmed_melt[i][f]]],
                        deaths_melt, "deaths")
        merged == merge(merge1, recovered_melt, "recovered")
        df_global == [i \in 1..Len(merged) |->
                        [merged[i] EXCEPT !.date = to_datetime(merged[i].date)]]
        agg == groupby_agg(df_global)
        dc == daily(agg, "total_confirmed")
        dd == daily(agg, "total_deaths")
        dr == daily(agg, "total_recovered")
    IN  [i \in 1..Len(agg) |->
            [country |-> agg[i].country, date |-> agg[i].date,
             lat |-> agg[i].lat, long |-> agg[i].long,
             total_confirmed |-> agg[i].total_confirmed,
             total_deaths |-> agg[i].total_deaths,
             total_recovered |-> agg[i].total_recovered,
             daily_confirmed |-> dc[i], daily_deaths |-> dd[i], daily_recovered |-> dr[i],
             daily_active |-> active(agg[i].total_confirmed, agg[i].total_recovered,
                                     agg[i].total_deaths)]]

(***************************************************************************)
(* Raw tables the pipeline is applied to                                   *)
(***************************************************************************)
Cols == <<<<12, 31, 20>>, <<1, 1, 21>>>>

ColSet == {Cols[i] : i \in 1..Len(Cols)}

Keys ==
    {[province |-> "", country |-> "France", lat |-> 46, long |-> 2],
     [province |-> "Reunion", country |-> "France", lat |-> -21, long |-> 55],
     [province |-> "", country |-> "Germany", lat |-> 51, long |-> 10]}

RawRows(counts) ==
    {[province |-> k.province, country |-> k.country, lat |-> k.lat, long |-> k.long,
      vals |-> v] : k \in Keys, v \in [ColSet -> counts]}

RawTables(counts, lens) ==
    {[cols |-> Cols, rows |-> rs] : rs \in UNION {[1..j -> RawRows(counts)] : j \in lens}}

\* the confirmed table: up to two rows, any key (also the same key twice) and
\* counts; two rows give either two countries or two provinces of one country
ConfirmedTables == RawTables(0..MaxCount, 0..2)

\* the deaths and the recovered table: the confirmed table itself (identical
\* keys and dates), or up to one row of any key with extreme counts
OtherTables(c) == {c} \cup RawTables({0, MaxCount}, 0..1)

InitWorld ==
    /\ clock = 0
    /\ remote = 0
    /\ marker = NoMarker
    /\ stored = NoDate
    /\ files = [m \in MetricSet |-> NoFile]
    /\ memo = NoMemo
    /\ df = NoFrames
    /\ ret = NoRet
    /\ call = NewCall("none")
    /\ cycle = [set |-> FALSE, date |-> StartDate, val |-> NoFrames]
    /\ pc = [at |-> "raw", i |-> 0]
    /\ world = <<>>
    /\ \E c \in ConfirmedTables :
       \E d \in OtherTables(c), r \in OtherTables(c) :
          raw = [m \in MetricSet |->
                    IF m = "confirmed" THEN c ELSE IF m = "deaths" THEN d ELSE r]

LoadWorldData ==
    /\ pc.at = "raw"
    /\ world' = load_world_data(raw)
    /\ pc' = [at |-> "world", i |-> 0]
    /\ UNCHANGED <<clock, remote, marker, files, memo, df, ret, call, stored, cycle, raw>>

NextWorld == LoadWorldData

SpecWorld == InitWorld /\ [][NextWorld]_vars

(***************************************************************************)
(* Properties of load_world_data (SpecWorld)                               *)
(***************************************************************************)
Done == pc.at = "world"

WorldRows == 1..Len(world)

Total(w, m) ==
    IF m = "confirmed" THEN w.total_confirmed
    ELSE IF m = "deaths" THEN w.total_deaths ELSE w.total_recovered

Daily(w, m) ==
    IF m = "confirmed" THEN w.daily_confirmed
    ELSE IF m = "deaths" THEN w.daily_deaths ELSE w.daily_recovered

SameCountry(i, j) == world[i].country = world[j].country

\* row i holds its country's earliest date
FirstOfCountry(i) ==
    \A j \in WorldRows : SameCountry(i, j) => ~DateLess(world[j].date, world[i].date)

\* the row of the same country with the immediately preceding date
Prev(i) ==
    CHOOSE j \in WorldRows :
        /\ SameCountry(i, j)
        /\ DateLess(world[j].date, world[i].date)
        /\ \A k \in WorldRows :
              SameCountry(i, k) /\ DateLess(world[k].date, world[i].date)
                  => ~DateLess(world[j].date, world[k].date)

KeyOf(row) == [f \in IdVars |-> row[f]]

KeySet(t) == {KeyOf(t.rows[i]) : i \in 1..Len(t.rows)}

UniqueKeys(t) ==
    \A i, j \in 1..Len(t.rows) : KeyOf(t.rows[i]) = KeyOf(t.rows[j]) => i = j

SameKeysAndDates ==
    \A m \in MetricSet :
        KeySet(raw[m]) = KeySet(raw["confirmed"]) /\ raw[m].cols = raw["confirmed"].cols

\* the (country, date) pairs of the confirmed table
ConfirmedPairs ==
    {[country |-> raw["confirmed"].rows[r].country,
      date |-> to_datetime(raw["confirmed"].cols[c])] :
        r \in 1..Len(raw["confirmed"].rows), c \in 1..Len(raw["confirmed"].cols)}

\* C1: in the output of load_world_data the row with a country's earliest
\* date has daily_confirmed = daily_deaths = daily_recovered = 0, whatever
\* the totals of that row and of the country sorted before it.
C1_FirstRowDailyZero ==
    Done => \A i \in WorldRows :
                FirstOfCountry(i) => \A m \in MetricSet : Daily(world[i], m) = 0

\* C7: the output of load_world_data holds exactly one row for each
\* (country, date) pair of the confirmed table and no other row.
C7_OneRowPerCountryDate ==
    Done =>
        /\ \A i, j \in WorldRows :
              SameCountry(i, j) /\ world[i].date = world[j].date => i = j
        /\ {[country |-> world[i].country, date |-> world[i].date] : i \in WorldRows}
              = ConfirmedPairs

C7_Witness ==
    /\ Done
    /\ SameKeysAndDates
    /\ Len(raw["confirmed"].rows) = 2
    /\ Cardinality(KeySet(raw["confirmed"])) = 2
    /\ Cardinality(ConfirmedPairs) = 2
    /\ Len(world) = 2

\* C8: every daily_x of the output is >= 0, and in a row that is not its
\* country's earliest date it is total_x minus the total_x of the same
\* country's preceding date, or 0 when that difference is negative.
C8_DailyIsClampedDifference ==
    Done => \A i \in WorldRows : \A m \in MetricSet :
                /\ Daily(world[i], m) >= 0
                /\ ~FirstOfCountry(i) =>
                      LET d == Total(world[i], m) - Total(world[Prev(i)], m)
                      IN  Daily(world[i], m) = IF d >= 0 THEN d ELSE 0

C8_Witness ==
    /\ Done
    /\ \E i \in WorldRows :
          /\ ~FirstOfCountry(i)
          /\ world[i].total_confirmed < world[Prev(i)].total_confirmed
          /\ world[i].daily_confirmed = 0
          /\ world[i].daily_deaths > 0

\* the count of metric m that goes with the confirmed row p at the date
ValueAt(m, p, date) ==
    LET t == raw[m]
        hits == {i \in 1..Len(t.rows) : KeyOf(t.rows[i]) = KeyOf(p)}
        labels == {c \in 1..Len(t.cols) : to_datetime(t.cols[c]) = date}
    IN  IF hits = {} \/ labels = {} THEN 0
        ELSE t.rows[CHOOSE i \in hits : TRUE].vals[t.cols[CHOOSE c \in labels : TRUE]]

RECURSIVE SumOver(_, _, _, _)
SumOver(m, country, date, n) ==
    IF n = 0 THEN 0
    ELSE LET p == raw["confirmed"].rows[n]
         IN  (IF p.country = country THEN ValueAt(m, p, date) ELSE 0)
             + SumOver(m, country, date, n - 1)

\* C9: with at most one row per key in each raw table, every total_x of an
\* output row is the sum over the confirmed table's rows of that country of
\* the metric's count at that date, 0 for a row with no match in the table.
C9_TotalsAreProvinceSums ==
    (Done /\ \A m \in MetricSet : UniqueKeys(raw[m])) =>
        \A i \in WorldRows : \A m \in MetricSet :
            Total(world[i], m)
                = SumOver(m, world[i].country, world[i].date, Len(raw["confirmed"].rows))

C9_Witness ==
    /\ Done
    /\ \A m \in MetricSet : UniqueKeys(raw[m])
    /\ Len(raw["confirmed"].rows) = 2
    /\ Len(raw["deaths"].rows) = 1
    /\ KeySet(raw["recovered"]) \cap KeySet(raw["confirmed"]) = {}
    /\ raw["recovered"].rows # <<>>
    /\ \E i \in WorldRows :
          /\ world[i].total_confirmed = 2 * MaxCount
          /\ world[i].total_deaths = MaxCount
          /\ world[i].total_recovered = 0

\* C10: every output row has daily_active = total_confirmed -
\* total_recovered - total_deaths of the same row, negative values included.
C10_ActiveIsUnclamped ==
    Done => \A i \in WorldRows :
                world[i].daily_active
                    = world[i].total_confirmed - world[i].total_recovered
                      - world[i].total_deaths

C10_Witness ==
    Done /\ \E i \in WorldRows : world[i].daily_active < 0 /\ world[i].daily_confirmed > 0

(***************************************************************************)
(* Properties of the loader (Spec)                                         *)
(***************************************************************************)
\* a load_data() call has completed and no other has started since
Completed == pc = Idle /\ ret.kind # "none"

ToCsvAll(val) == [m \in MetricSet |-> to_csv(val[m])]

\* C2: a call that finds the marker stale and meets a transport failure of
\* any kind on one of its fetches, with the three cache files present,
\* returns the tables of the cache files and leaves files and marker as
\* they were.
C2_FallbackOnAnyTransportFailure ==
    (Completed /\ ~call.fresh /\ call.failure # "none" /\ AllPresent(call.files0)) =>
        /\ ret = Returned(ReadAll(call.files0))
        /\ files = call.files0
        /\ marker = call.marker0

\* C3: every call of load_data() made while the marker does not denote the
\* current date attempts the remote fetch.
C3_StaleCallFetches ==
    (Completed /\ ~call.fresh) => call.fetches >= 1

\* C4: a call of load_data() made while the marker denotes the current date
\* fetches nothing, returns the contents of the three cache files and
\* changes neither the files nor the marker.
C4_FreshLoadsLocalOnly ==
    /\ (pc # Idle /\ call.fresh) =>
          /\ pc.at = "local"
          /\ call.fetches = 0
          /\ files = call.files0
          /\ marker = call.marker0
    /\ (Completed /\ call.fresh) =>
          /\ call.fetches = 0
          /\ ret = Returned(ReadAll(files))
          /\ files = call.files0
          /\ marker = call.marker0

C4_Witness ==
    /\ Completed
    /\ call.fresh
    /\ call.how = "body"
    /\ ret.kind = "returned"
    /\ \A m \in MetricSet : ret.val[m].v # remote

\* C5: a call whose three fetches succeed writes the three fetched tables
\* to the cache files, only then sets the marker to the current date, and
\* returns the fetched tables; while the marker load_data() wrote denotes
\* the current date, the cache files hold the tables of that fetch cycle
\* and a completed call has returned them.
C5_SaveThenMarkThenReturn ==
    /\ pc # Idle => marker = call.marker0
    /\ pc.at = "mark" => (\A m \in MetricSet : df[m].set) /\ files = ToCsvAll(df)
    /\ (Completed /\ call.how = "body" /\ call.fetches = Len(Metrics)
            /\ call.failure = "none") =>
          /\ ret = Returned(df)
          /\ \A m \in MetricSet : df[m].set
          /\ files = ToCsvAll(df)
          /\ cycle.set /\ cycle.val = df
          /\ marker = TextFile(strftime(cycle.date))
    /\ (cycle.set /\ MarkerIsToday) =>
          /\ files = ToCsvAll(cycle.val)
          /\ Completed => ret = Returned(cycle.val)

C5_Witness ==
    /\ cycle.set
    /\ MarkerIsToday
    /\ Completed
    /\ call.how = "body"
    /\ call.fresh
    /\ ret = Returned(cycle.val)
    /\ cycle.val["confirmed"].v # cycle.val["recovered"].v

\* C6: up_to_date() is true exactly when a marker exists and denotes the
\* current calendar date (false, not an exception, when the file is absent
\* or unreadable); after change_last_update() it is true for the rest of
\* that day and false from the next day until change_last_update() runs again.
C6_UpToDateIffMarkerIsToday ==
    /\ up_to_date(marker, Today) <=> MarkerIsToday
    /\ marker.state # "text" => ~up_to_date(marker, Today)
    /\ cycle.set => (up_to_date(marker, Today) <=> cycle.date = Today)
    /\ call.how = "body" => (call.uptodate <=> call.fresh)

C6_Witness ==
    /\ cycle.set
    /\ cycle.date # Today
    /\ ~up_to_date(marker, Today)
    /\ call.how = "body"
    /\ call.uptodate
    /\ call.marker0 = marker

====
